---- MODULE Spec2Model ----
(***************************************************************************)
(* Transaction manager of go-pgsql (pgx.Transactor / pgtx.TxManager):      *)
(* Begin / Commit / Rollback, WithTx and WithNestedTx, run by one caller   *)
(* over one pool.  A context is the pair of values stored under txKey and  *)
(* txCounterKey; the depth counter is a heap cell shared by reference.     *)
(* Pool sets and registry of go-pgsql (pgxpool.Pools / pgxpool.Registry):  *)
(* Open, Master, Slave, NewRegistry, GetPoolName, Pools and Close, called  *)
(* by concurrent callers.                                                  *)
(* WithNestedTx called by goroutines forked from one context.              *)
(* pgxpool.SetDefaultValues; migrate.NewWithConfig, Migrate.Up and Down.   *)
(***************************************************************************)
EXTENDS Integers, Sequences, FiniteSets, TLC

\* ---------------------------------------------------------------- bounds
\* deepest nesting of WithTx / WithNestedTx invocations on the call stack
MaxDepth == 3
\* invocations of WithTx / WithNestedTx in one call tree
MaxInv == 3
\* top-level operations issued by the caller
MaxCalls == 2

\* ------------------------------------------------------ values and errors
ErrNoTransaction == "no transaction in context"
BeginErr == "begin failed"
CommitErr == "commit failed"
RollbackErr == "rollback failed"
NilDeref == "nil pointer dereference"
WorkErrs == {"e1", "e2"}
PanicVals == {"p1"}

\* what a call produced: a nil error, an error value, or a panic value
NilOut == [kind |-> "nil", val |-> "nil"]
ErrOut(e) == [kind |-> "err", val |-> e]
PanicOut(p) == [kind |-> "panic", val |-> p]
NotRun == [kind |-> "none", val |-> "none"]

\* ----------------------------------------------------------------- state
VARIABLES
  stack,    \* frames of the running WithTx / WithNestedTx invocations
  cells,    \* heap of depth-counter cells (*int32), by allocation order
  txState,  \* state of every transaction handle the pool has handed out
  userCtx,  \* the context the caller holds (Background or Begin's result)
  log,      \* pool.Begin / tx.Commit / tx.Rollback calls of this call tree
  done,     \* finished invocations of this call tree, in order of return
  result,   \* what the outermost invocation gave the caller
  last,     \* the caller's last direct Begin / Commit / Rollback
  ncalls    \* top-level operations issued so far

txVars == <<stack, cells, txState, userCtx, log, done, result, last, ncalls>>

VARIABLES
  built,    \* what NewRegistry gave the caller: a registry or an error
  regPools, \* Registry.pools: name -> pool set
  sets,     \* heap of pool sets (*Pools): the pools slice and count
  conns,    \* heap of pools (*Pool): how often each has been closed
  mutex,    \* Registry's sync.Mutex: 0 or the caller holding it
  procs,    \* each concurrent caller's position in its current call
  hist      \* completed Master / Slave / GetPoolName / Pools / Close calls

poolVars == <<built, regPools, sets, conns, mutex, procs, hist>>

VARIABLES
  parent,   \* the context concurrent WithNestedTx invocations are forked from
  forks     \* each forked goroutine's position in its WithNestedTx call

forkVars == <<parent, forks>>

VARIABLES
  conf,     \* the pgxpool Config a caller builds and applies defaults to
  migrator, \* what migrate.NewWithConfig gave its caller
  run       \* the Migrate.Up / Migrate.Down call under way

\* what the transaction manager's caller, the callers of the pool sets and
\* the registry, the forked goroutines, and the callers of the
\* configuration functions and of the migrator each leave alone
txOthers == <<poolVars, forkVars, conf, migrator, run>>
poolOthers == <<txVars, forkVars, conf, migrator, run>>
forkOthers == <<stack, userCtx, done, result, last, ncalls, poolVars, conf, migrator, run>>
confOthers == <<txVars, poolVars, forkVars, migrator, run>>
newOthers == <<txVars, poolVars, forkVars, conf, run>>
runOthers == <<txVars, poolVars, forkVars, conf, migrator>>

vars == <<txVars, poolVars, forkVars, conf, migrator, run>>

\* a context: tx = handle stored under txKey (0: none), cnt = cell stored
\* under txCounterKey (0: none)
Background == [tx |-> 0, cnt |-> 0]
NilCtx == [tx |-> -1, cnt |-> -1]

NoLast == [op |-> "none", ctxIn |-> Background, ctxOut |-> Background, err |-> NotRun]

\* tx, ok := ctx.Value(txKey).(Tx)
HasTx(ctx) == ctx # NilCtx /\ ctx.tx # 0

\* ------------------------------------------------------------ collaborators
\* Conn.Begin: the pool hands out a fresh open handle, or fails
PoolBegin(st, ok) == IF ok THEN Append(st, "open") ELSE st

\* Tx.Commit / Tx.Rollback on handle h with outcome ok: a closed handle
\* stays as it is; an open one ends committed, rolled back or closed
TxEnd(st, h, op, ok) ==
  IF st[h] # "open" THEN st
  ELSE [st EXCEPT ![h] = IF ~ok THEN "closed"
                         ELSE IF op = "Commit" THEN "committed" ELSE "rolledback"]

\* outcomes a terminal call on handle h may have
TxOutcomes(st, h) == IF st[h] = "open" THEN BOOLEAN ELSE {FALSE}

\* ------------------------------------------------------------ begin
\* Transactor.begin / TxManager.Begin: the context returned
begin(ctx, ok, h) == IF ok THEN [ctx EXCEPT !.tx = h] ELSE NilCtx

\* ------------------------------------------------------------ tickTxCounter
\* the context tickTxCounter returns: a new cell is attached when none is there
tickTxCounterCtx(ctx, cs) ==
  IF ctx.cnt = 0 THEN [ctx EXCEPT !.cnt = Len(cs) + 1] ELSE ctx

MutTickCopiesCell(ctx, cs, val) ==
  Append(cs, (IF ctx.cnt = 0 THEN 0 ELSE cs[ctx.cnt]) + val)
\* the heap after atomic.AddInt32(count, val)
tickTxCounterCells(ctx, cs, val) ==
  IF ctx.cnt = 0 THEN Append(cs, val) ELSE [cs EXCEPT ![ctx.cnt] = @ + val]

\* TxManager.Commit / Transactor.commit: the error returned; ok is the
\* outcome of tx.Commit when a handle is there
MutCommitSilent(ctx, ok) ==
  IF ~HasTx(ctx) THEN NilOut
  ELSE IF ok THEN NilOut ELSE ErrOut(CommitErr)
commit(ctx, ok) ==
  IF ~HasTx(ctx) THEN ErrOut(ErrNoTransaction)
  ELSE IF ok THEN NilOut ELSE ErrOut(CommitErr)

\* TxManager.Rollback / Transactor.rollback
rollback(ctx, ok) ==
  IF ~HasTx(ctx) THEN ErrOut(ErrNoTransaction)
  ELSE IF ok THEN NilOut ELSE ErrOut(RollbackErr)

\* the error a terminal call op on ctx returns
Terminal(op, ctx, ok) == IF op = "Commit" THEN commit(ctx, ok) ELSE rollback(ctx, ok)

\* the record of one call on the pool or on a handle, made by invocation by
Event(op, by, h, ok) == [op |-> op, by |-> by, tx |-> h, ok |-> ok]

\* the log after terminal call op on ctx: nothing is invoked without a handle
LogTerminal(lg, op, by, ctx, ok) ==
  IF HasTx(ctx) THEN Append(lg, Event(op, by, ctx.tx, ok)) ELSE lg

\* the handles after terminal call op on ctx
StateTerminal(st, op, ctx, ok) ==
  IF HasTx(ctx) THEN TxEnd(st, ctx.tx, op, ok) ELSE st

\* outcomes of a terminal call on ctx
CtxOutcomes(st, ctx) == IF HasTx(ctx) THEN TxOutcomes(st, ctx.tx) ELSE {FALSE}

\* ------------------------------------------------------------ call stack
Top == stack[Len(stack)]
Rest == SubSeq(stack, 1, Len(stack) - 1)

\* a top-level call starts a new call tree: its log and records start empty
logBase == IF stack = <<>> THEN <<>> ELSE log
doneBase == IF stack = <<>> THEN <<>> ELSE done

\* between call trees only what the caller's context refers to is kept:
\* its handle (renumbered 1); handles and counter cells that no context
\* refers to any more are dropped
txBase ==
  IF stack # <<>> THEN txState
  ELSE IF HasTx(userCtx) THEN <<txState[userCtx.tx]>> ELSE <<>>
cellsBase == IF stack = <<>> THEN <<>> ELSE cells
userBase ==
  IF stack # <<>> THEN userCtx
  ELSE IF HasTx(userCtx) THEN [userCtx EXCEPT !.tx = 1] ELSE userCtx
NewId == Len(doneBase) + Len(stack) + 1

\* the contexts a call may be given: the caller's own at top level, the
\* context handed to the enclosing work inside a call tree
CallerCtxs == IF stack = <<>> THEN {Background, userBase} ELSE {Top.ctx}

CanCall ==
  IF stack = <<>> THEN ncalls < MaxCalls
  ELSE /\ Top.pc \in {"work", "inner"}
       /\ Len(stack) < MaxDepth
       /\ NewId <= MaxInv

StateOf(st, ctx) == IF HasTx(ctx) /\ ctx.tx <= Len(st) THEN st[ctx.tx] ELSE "none"

Frame(id, fn, ctx0, ctx, owner) ==
  [id |-> id, fn |-> fn, ctx0 |-> ctx0, ctx |-> ctx, owner |-> owner,
   depth |-> Len(stack) + 1, pc |-> "work", work |-> NotRun, inner |-> NotRun,
   st0 |-> StateOf(txBase, ctx0), cnt0 |-> IF ctx0.cnt = 0 THEN 0 ELSE cellsBase[ctx0.cnt]]

\* the record kept of a finished invocation; st1 is its handle's state and
\* cnt1 its counter cell's value when it returns
DoneRec(f, ret, st, cs) ==
  [id |-> f.id, fn |-> f.fn, ctx0 |-> f.ctx0, ctx |-> f.ctx, owner |-> f.owner,
   depth |-> f.depth, work |-> f.work, inner |-> f.inner, ret |-> ret,
   st0 |-> f.st0, st1 |-> StateOf(st, f.ctx),
   cnt0 |-> f.cnt0, cnt1 |-> IF f.ctx = NilCtx \/ f.ctx.cnt = 0 THEN 0 ELSE cs[f.ctx.cnt]]

\* hand outcome r to the enclosing work (stk is the stack below the callee):
\* a panic unwinds through the work, a return value is given to it
Deliver(stk, r) ==
  IF stk = <<>> THEN stk
  ELSE [stk EXCEPT ![Len(stk)] =
          IF r.kind = "panic" THEN [@ EXCEPT !.work = r, !.pc = "exit"]
          ELSE [@ EXCEPT !.inner = r, !.pc = "inner"]]

\* ------------------------------------------------------------ WithTx
\* WithTx starts a transaction (and defers its end) when the context
\* carries no handle
MutWithTxAlwaysStarts(ctx) == TRUE
WithTxStarts(ctx) == ~HasTx(ctx)

\* the deferred function of WithTx: which terminal call it makes
MutWithTxDeferRollsBack(work) == "Rollback"
MutWithTxDeferSkipsPanic(work) ==
  IF work.kind = "panic" THEN "none"
  ELSE IF work.kind = "err" THEN "Rollback"
  ELSE "Commit"
WithTxDefer(work) ==
  IF work.kind = "panic" THEN "Rollback"
  ELSE IF work.kind = "err" THEN "Rollback"
  ELSE "Commit"

\* what WithTx gives its caller: the panic again, the work's error, or
\* the result of commit
MutRetSurfacesTerminal(work, term) ==
  IF work.kind = "panic" THEN work
  ELSE IF term.kind = "err" THEN term ELSE work
MutRetDropsCommit(work, term) == work
MutRetRecovers(work, term) ==
  IF work.kind = "panic" THEN ErrOut(work.val)
  ELSE IF work.kind = "err" THEN work
  ELSE term
DeferRet(work, term) ==
  IF work.kind = "panic" THEN work
  ELSE IF work.kind = "err" THEN work
  ELSE term

\* WithTx up to the call of tFunc
WithTxEnter ==
  /\ CanCall
  /\ UNCHANGED txOthers
  /\ \E ctx \in CallerCtxs :
       IF ~WithTxStarts(ctx)
       THEN /\ stack' = Append(stack, Frame(NewId, "WithTx", ctx, ctx, FALSE))
            /\ log' = logBase
            /\ done' = doneBase
            /\ result' = IF stack = <<>> THEN NotRun ELSE result
            /\ txState' = txBase
       ELSE \E ok \in BOOLEAN :
              LET h == Len(txBase) + 1
                  ctx1 == begin(ctx, ok, h)
                  f == Frame(NewId, "WithTx", ctx, ctx1, TRUE)
              IN  /\ log' = Append(logBase, Event("Begin", NewId, IF ok THEN h ELSE 0, ok))
                  /\ txState' = PoolBegin(txBase, ok)
                  /\ IF ok
                     THEN /\ stack' = Append(stack, f)
                          /\ done' = doneBase
                          /\ result' = IF stack = <<>> THEN NotRun ELSE result
                     ELSE /\ stack' = Deliver(stack, ErrOut(BeginErr))
                          /\ done' = Append(doneBase,
                                 DoneRec([f EXCEPT !.owner = FALSE], ErrOut(BeginErr), txBase, cellsBase))
                          /\ result' = IF stack = <<>> THEN ErrOut(BeginErr) ELSE result
  /\ ncalls' = IF stack = <<>> THEN ncalls + 1 ELSE ncalls
  /\ last' = IF stack = <<>> THEN NoLast ELSE last
  /\ cells' = cellsBase
  /\ userCtx' = userBase

\* WithTx from the return (or panic) of tFunc: the deferred function, then
\* the return to the caller
WithTxExit ==
  /\ stack # <<>>
  /\ UNCHANGED txOthers
  /\ Top.fn = "WithTx"
  /\ Top.pc = "exit"
  /\ LET f == Top
         op == IF f.owner THEN WithTxDefer(f.work) ELSE "none"
     IN  IF op = "none"
         THEN /\ stack' = Deliver(Rest, f.work)
              /\ done' = Append(done, DoneRec(f, f.work, txState, cells))
              /\ result' = IF Rest = <<>> THEN f.work ELSE result
              /\ UNCHANGED <<log, txState>>
         ELSE \E ok \in CtxOutcomes(txState, f.ctx) :
                LET ret == DeferRet(f.work, Terminal(op, f.ctx, ok))
                    st == StateTerminal(txState, op, f.ctx, ok)
                IN  /\ log' = LogTerminal(log, op, f.id, f.ctx, ok)
                    /\ txState' = st
                    /\ stack' = Deliver(Rest, ret)
                    /\ done' = Append(done, DoneRec(f, ret, st, cells))
                    /\ result' = IF Rest = <<>> THEN ret ELSE result
  /\ UNCHANGED <<cells, userCtx, last, ncalls>>

\* ------------------------------------------------------------ WithNestedTx
\* ctx.Value on a nil context: tickTxCounter panics before it adds
TickPanics(ctx) == ctx = NilCtx

\* beginNestedTx: whether this invocation starts the transaction (its
\* second result, "nested", when begin succeeds)
MutNestedAlways(ctx) == TRUE
\* decided by the depth counter: starts when the increment made it 1
MutNestedStartsAtDepthOne(ctx) ==
  (IF ctx.cnt > Len(cellsBase) THEN 0 ELSE cellsBase[ctx.cnt]) + 1 = 1
beginNestedTxStarts(ctx) == ~HasTx(ctx)

\* the deferred function of WithNestedTx: which terminal call it makes
MutNestedDeferAll(nested, work) ==
  IF work.kind \in {"panic", "err"} THEN "Rollback"
  ELSE IF nested THEN "Commit" ELSE "none"
MutNestedDeferCommits(nested, work) == IF nested THEN "Commit" ELSE "none"
MutNestedDeferPanicNone(nested, work) ==
  IF work.kind = "panic" THEN "none"
  ELSE IF work.kind = "err" THEN (IF nested THEN "Rollback" ELSE "none")
  ELSE (IF nested THEN "Commit" ELSE "none")
WithNestedTxDefer(nested, work) ==
  IF work.kind = "panic" THEN (IF nested THEN "Rollback" ELSE "none")
  ELSE IF work.kind = "err" THEN (IF nested THEN "Rollback" ELSE "none")
  ELSE (IF nested THEN "Commit" ELSE "none")

\* WithNestedTx up to the call of tFunc: beginNestedTx
WithNestedTxEnter ==
  /\ CanCall
  /\ UNCHANGED txOthers
  /\ \E ctx \in CallerCtxs :
       LET ctx1 == tickTxCounterCtx(ctx, cellsBase)
           cells1 == tickTxCounterCells(ctx, cellsBase, 1)
       IN  IF ~beginNestedTxStarts(ctx1)
           THEN /\ stack' = Append(stack, Frame(NewId, "WithNestedTx", ctx, ctx1, FALSE))
                /\ cells' = cells1
                /\ log' = logBase
                /\ done' = doneBase
                /\ result' = IF stack = <<>> THEN NotRun ELSE result
                /\ txState' = txBase
           ELSE \E ok \in BOOLEAN :
                  LET h == Len(txBase) + 1
                      ctx2 == begin(ctx1, ok, h)
                      f == Frame(NewId, "WithNestedTx", ctx, ctx2, TRUE)
                      \* begin failed: tickTxCounter(ctx, -1) on what begin returned
                      ret == IF TickPanics(ctx2) THEN PanicOut(NilDeref) ELSE ErrOut(BeginErr)
                      cells2 == IF TickPanics(ctx2) THEN cells1
                                ELSE tickTxCounterCells(ctx2, cells1, -1)
                  IN  /\ log' = Append(logBase, Event("Begin", NewId, IF ok THEN h ELSE 0, ok))
                      /\ txState' = PoolBegin(txBase, ok)
                      /\ IF ok
                         THEN /\ stack' = Append(stack, f)
                              /\ cells' = cells1
                              /\ done' = doneBase
                              /\ result' = IF stack = <<>> THEN NotRun ELSE result
                         ELSE /\ stack' = Deliver(stack, ret)
                              /\ cells' = cells2
                              /\ done' = Append(doneBase,
                                     DoneRec([f EXCEPT !.owner = FALSE], ret, txBase, cells2))
                              /\ result' = IF stack = <<>> THEN ret ELSE result
  /\ ncalls' = IF stack = <<>> THEN ncalls + 1 ELSE ncalls
  /\ last' = IF stack = <<>> THEN NoLast ELSE last
  /\ userCtx' = userBase

\* WithNestedTx from the return (or panic) of tFunc: the deferred function
\* (the counter first, then the terminal call), then the return
WithNestedTxExit ==
  /\ stack # <<>>
  /\ UNCHANGED txOthers
  /\ Top.fn = "WithNestedTx"
  /\ Top.pc = "exit"
  /\ LET f == Top
         cells1 == tickTxCounterCells(f.ctx, cells, -1)
         op == WithNestedTxDefer(f.owner, f.work)
     IN  /\ cells' = cells1
         /\ IF op = "none"
            THEN /\ stack' = Deliver(Rest, f.work)
                 /\ done' = Append(done, DoneRec(f, f.work, txState, cells1))
                 /\ result' = IF Rest = <<>> THEN f.work ELSE result
                 /\ UNCHANGED <<log, txState>>
            ELSE \E ok \in CtxOutcomes(txState, f.ctx) :
                   LET ret == DeferRet(f.work, Terminal(op, f.ctx, ok))
                       st == StateTerminal(txState, op, f.ctx, ok)
                   IN  /\ log' = LogTerminal(log, op, f.id, f.ctx, ok)
                       /\ txState' = st
                       /\ stack' = Deliver(Rest, ret)
                       /\ done' = Append(done, DoneRec(f, ret, st, cells1))
                       /\ result' = IF Rest = <<>> THEN ret ELSE result
  /\ UNCHANGED <<userCtx, last, ncalls>>

\* ------------------------------------------------------------ the work
\* what tFunc may return: nil, an error of its own, or (after an inner
\* call returned) that call's result
WorkReturns(f) ==
  {NilOut} \cup {ErrOut(e) : e \in WorkErrs} \cup (IF f.pc = "inner" THEN {f.inner} ELSE {})

\* tFunc returns
WorkReturn ==
  /\ stack # <<>>
  /\ UNCHANGED txOthers
  /\ Top.pc \in {"work", "inner"}
  /\ \E r \in WorkReturns(Top) :
       stack' = [stack EXCEPT ![Len(stack)] = [@ EXCEPT !.work = r, !.pc = "exit"]]
  /\ UNCHANGED <<cells, txState, userCtx, log, done, result, last, ncalls>>

\* tFunc panics
WorkPanic ==
  /\ stack # <<>>
  /\ UNCHANGED txOthers
  /\ Top.pc \in {"work", "inner"}
  /\ \E p \in PanicVals :
       stack' = [stack EXCEPT ![Len(stack)] = [@ EXCEPT !.work = PanicOut(p), !.pc = "exit"]]
  /\ UNCHANGED <<cells, txState, userCtx, log, done, result, last, ncalls>>

\* ------------------------------------------------ Begin / Commit / Rollback
\* the caller's own contexts
UserCtxs == {Background, userBase}

\* TxManager.Begin called by the caller
Begin ==
  /\ stack = <<>>
  /\ UNCHANGED txOthers
  /\ ncalls < MaxCalls
  /\ \E ctx \in UserCtxs, ok \in BOOLEAN :
       LET h == Len(txBase) + 1
           ctx1 == begin(ctx, ok, h)
       IN  /\ log' = <<Event("Begin", 0, IF ok THEN h ELSE 0, ok)>>
           /\ txState' = PoolBegin(txBase, ok)
           /\ last' = [op |-> "Begin", ctxIn |-> ctx, ctxOut |-> ctx1,
                       err |-> IF ok THEN NilOut ELSE ErrOut(BeginErr)]
           /\ userCtx' = IF ok THEN ctx1 ELSE userBase
  /\ done' = <<>>
  /\ result' = NotRun
  /\ ncalls' = ncalls + 1
  /\ cells' = cellsBase
  /\ UNCHANGED stack

\* TxManager.Commit called by the caller
Commit ==
  /\ stack = <<>>
  /\ UNCHANGED txOthers
  /\ ncalls < MaxCalls
  /\ \E ctx \in UserCtxs : \E ok \in CtxOutcomes(txBase, ctx) :
       /\ log' = LogTerminal(<<>>, "Commit", 0, ctx, ok)
       /\ txState' = StateTerminal(txBase, "Commit", ctx, ok)
       /\ last' = [op |-> "Commit", ctxIn |-> ctx, ctxOut |-> ctx, err |-> commit(ctx, ok)]
  /\ done' = <<>>
  /\ result' = NotRun
  /\ ncalls' = ncalls + 1
  /\ cells' = cellsBase
  /\ userCtx' = userBase
  /\ UNCHANGED stack

\* TxManager.Rollback called by the caller
Rollback ==
  /\ stack = <<>>
  /\ UNCHANGED txOthers
  /\ ncalls < MaxCalls
  /\ \E ctx \in UserCtxs : \E ok \in CtxOutcomes(txBase, ctx) :
       /\ log' = LogTerminal(<<>>, "Rollback", 0, ctx, ok)
       /\ txState' = StateTerminal(txBase, "Rollback", ctx, ok)
       /\ last' = [op |-> "Rollback", ctxIn |-> ctx, ctxOut |-> ctx, err |-> rollback(ctx, ok)]
  /\ done' = <<>>
  /\ result' = NotRun
  /\ ncalls' = ncalls + 1
  /\ cells' = cellsBase
  /\ userCtx' = userBase
  /\ UNCHANGED stack

\* ------------------------------------------------------------ pool sets
\* nodes of the configuration of a pool set opened on its own
MaxNodes == 3
\* nodes of one configuration of a registry
MaxRegNodes == 2
\* concurrent callers of a pool set or of the registry
NProcs == 2
\* calls the callers of a pool set start
MaxPoolCalls == 5
\* calls the callers of the registry start
MaxRegCalls == 3

DEFAULT == "default"
\* the names configurations are given, and a name no configuration has
ConfNames == {DEFAULT, "replica"}
LookupNames == ConfNames \cup {"nonexistent"}

ErrUnknownPool == "unknown pool"
ConnectErr == "connect failed"
IndexPanic == "index out of range"

Procs == 1..NProcs

\* Config.Nodes: for each node, whether ParseConfig and ConnectConfig succeed
NodeLists == UNION {[1..n -> BOOLEAN] : n \in 0..MaxNodes}
RegNodeLists == UNION {[1..n -> BOOLEAN] : n \in 0..MaxRegNodes}
\* Configs: name -> Config
ConfigSets == UNION {[D -> RegNodeLists] : D \in SUBSET ConfNames}
\* the orders in which a range over a map with keys S may visit them
Orders(S) == {o \in [1..Cardinality(S) -> S] : \A k \in S : \E i \in DOMAIN o : o[i] = k}

\* what a call on a pool set or on the registry gave its caller
PoolRet(i, c) == [kind |-> "pool", idx |-> i, pool |-> c, set |-> 0, err |-> "nil"]
PanicRet(i) == [kind |-> "panic", idx |-> i, pool |-> 0, set |-> 0, err |-> IndexPanic]
SetRet(s) == [kind |-> "set", idx |-> 0, pool |-> 0, set |-> s, err |-> "nil"]
ErrRet(e) == [kind |-> "err", idx |-> 0, pool |-> 0, set |-> 0, err |-> e]
NilRet == [kind |-> "nil", idx |-> 0, pool |-> 0, set |-> 0, err |-> "nil"]

NotBuilt == [ok |-> FALSE, err |-> "none", bad |-> FALSE]
NoPools == [k \in {} |-> 0]
Idle == [at |-> "idle", op |-> "none", name |-> "", set |-> 0, idx |-> 0, todo |-> {}]

\* a pool just connected
Connected == [closes |-> 0]

\* some node of the list cannot be opened
AnyDown(nodes) == \E i \in DOMAIN nodes : ~nodes[i]

\* the loop of Open from node i on: pools holds the pools connected so
\* far, cs the heap of pools
RECURSIVE OpenFrom(_, _, _, _)
OpenFrom(nodes, i, pools, cs) ==
  IF i > Len(nodes) THEN [err |-> "nil", pools |-> pools, conns |-> cs]
  ELSE IF ~nodes[i] THEN [err |-> ConnectErr, pools |-> <<>>, conns |-> cs]
  ELSE OpenFrom(nodes, i + 1, Append(pools, Len(cs) + 1), Append(cs, Connected))

Open(nodes, cs) == OpenFrom(nodes, 1, <<>>, cs)

MutReturnsPartial(err, rp) == [ok |-> TRUE, err |-> err, pools |-> rp]
\* NewRegistry's return when Open failed with err, the map holding rp
OpenFailed(err, rp) == [ok |-> FALSE, err |-> err, pools |-> NoPools]

\* the loop of NewRegistry from the i-th configuration of the order on
RECURSIVE NewRegistryFrom(_, _, _, _, _, _)
NewRegistryFrom(cfgs, order, i, rp, ss, cs) ==
  IF i > Len(order)
  THEN [ok |-> TRUE, err |-> "nil", pools |-> rp, sets |-> ss, conns |-> cs]
  ELSE LET o == Open(cfgs[order[i]], cs) IN
       IF o.err # "nil"
       THEN LET f == OpenFailed(o.err, rp) IN
            [ok |-> f.ok, err |-> f.err, pools |-> f.pools, sets |-> ss, conns |-> o.conns]
       ELSE NewRegistryFrom(cfgs, order, i + 1,
                            [k \in DOMAIN rp \cup {order[i]} |->
                               IF k = order[i] THEN Len(ss) + 1 ELSE rp[k]],
                            Append(ss, [pools |-> o.pools, count |-> 0]), o.conns)

\* p.pools[i]
PoolAt(ps, i) ==
  IF i < Len(ps.pools) THEN PoolRet(i, ps.pools[i + 1]) ELSE PanicRet(i)

MutMasterLast(ps) ==
  IF Len(ps.pools) = 0 THEN PanicRet(0) ELSE PoolAt(ps, Len(ps.pools) - 1)
\* Pools.Master
MasterPool(ps) == PoolAt(ps, 0)

MutSlaveAnyNode(n, cnt) ==
  IF n <= 1 THEN [idx |-> 0, count |-> cnt]
  ELSE [idx |-> (cnt + 1) % n, count |-> cnt + 1]
MutSlaveSticky(n, cnt) ==
  IF n <= 1 THEN [idx |-> 0, count |-> cnt]
  ELSE [idx |-> 1, count |-> cnt + 1]
\* Pools.slave on a set whose counter holds cnt: the index chosen and the
\* counter after atomic.AddUint64
slave(n, cnt) ==
  IF n <= 1 THEN [idx |-> 0, count |-> cnt]
  ELSE [idx |-> 1 + ((cnt + 1) % (n - 1)), count |-> cnt + 1]

MutPoolsCloseSkipsMaster(ps, cs) ==
  [c \in DOMAIN cs |->
     IF \E i \in DOMAIN ps.pools : i > 1 /\ ps.pools[i] = c
     THEN [closes |-> cs[c].closes + 1] ELSE cs[c]]
\* Pools.Close: Close is called on every pool of the set
PoolsClose(ps, cs) ==
  [c \in DOMAIN cs |->
     IF \E i \in DOMAIN ps.pools : ps.pools[i] = c
     THEN [closes |-> cs[c].closes + 1] ELSE cs[c]]

MutLookupNil(rp, name) ==
  IF name \in DOMAIN rp THEN SetRet(rp[name]) ELSE NilRet
\* the lookup of GetPoolName in the map rp
Lookup(rp, name) ==
  IF name \in DOMAIN rp THEN SetRet(rp[name]) ELSE ErrRet(ErrUnknownPool)

MutDeleteNothing(rp, key) == rp
\* delete(r.pools, key)
Delete(rp, key) == [k \in DOMAIN rp \ {key} |-> rp[k]]

MutLockIgnored(m) == TRUE
\* r.Lock() goes through when no caller holds the mutex m
CanLock(m) == m = 0

\* a caller with the pool set or the registry in hand may start one more
\* call, of at most max
CanStart(p, max) ==
  /\ built.ok
  /\ procs[p].at = "idle"
  /\ Len(hist) + Cardinality({q \in Procs : procs[q].at # "idle"}) < max

\* the record of the call caller p completes
Done(p, ret) ==
  [op |-> procs[p].op, name |-> procs[p].name, set |-> procs[p].set, ret |-> ret]

\* Open called on one configuration
OpenPools ==
  /\ built = NotBuilt
  /\ \E nodes \in NodeLists :
       LET o == Open(nodes, <<>>) IN
       /\ built' = [ok |-> o.err = "nil", err |-> o.err, bad |-> AnyDown(nodes)]
       /\ sets' = IF o.err = "nil" THEN <<[pools |-> o.pools, count |-> 0]>> ELSE <<>>
       /\ conns' = o.conns
  /\ UNCHANGED <<regPools, mutex, procs, hist>>
  /\ UNCHANGED poolOthers

\* NewRegistry (NewWithConfigs, NewWithConfigOptions): Open on every
\* configuration, in the order the map is ranged over
NewRegistry ==
  /\ built = NotBuilt
  /\ \E cfgs \in ConfigSets : \E order \in Orders(DOMAIN cfgs) :
       LET r == NewRegistryFrom(cfgs, order, 1, NoPools, <<>>, <<>>) IN
       /\ built' = [ok |-> r.ok, err |-> r.err,
                    bad |-> \E k \in DOMAIN cfgs : AnyDown(cfgs[k])]
       /\ regPools' = r.pools
       /\ sets' = r.sets
       /\ conns' = r.conns
  /\ UNCHANGED <<mutex, procs, hist>>
  /\ UNCHANGED poolOthers

\* Pools.Master
Master ==
  /\ \E p \in Procs, s \in DOMAIN sets :
       /\ CanStart(p, MaxPoolCalls)
       /\ hist' = Append(hist, [op |-> "Master", name |-> "", set |-> s,
                                ret |-> MasterPool(sets[s])])
  /\ UNCHANGED <<built, regPools, sets, conns, mutex, procs>>
  /\ UNCHANGED poolOthers

\* Pools.Slave up to the index slave chose
Slave ==
  /\ \E p \in Procs, s \in DOMAIN sets :
       /\ CanStart(p, MaxPoolCalls)
       /\ LET r == slave(Len(sets[s].pools), sets[s].count) IN
          /\ sets' = [sets EXCEPT ![s].count = r.count]
          /\ procs' = [procs EXCEPT ![p] =
                         [Idle EXCEPT !.at = "slave", !.op = "Slave", !.set = s, !.idx = r.idx]]
  /\ UNCHANGED <<built, regPools, conns, mutex, hist>>
  /\ UNCHANGED poolOthers

\* Pools.Slave returns the pool at the index chosen
SlaveReturn ==
  /\ \E p \in Procs :
       /\ procs[p].at = "slave"
       /\ hist' = Append(hist, Done(p, PoolAt(sets[procs[p].set], procs[p].idx)))
       /\ procs' = [procs EXCEPT ![p] = Idle]
  /\ UNCHANGED <<built, regPools, sets, conns, mutex>>
  /\ UNCHANGED poolOthers

\* r.Lock() of GetPoolName
GetPoolNameLock(p, name, op) ==
  /\ CanStart(p, MaxRegCalls)
  /\ CanLock(mutex)
  /\ mutex' = p
  /\ procs' = [procs EXCEPT ![p] = [Idle EXCEPT !.at = "get", !.op = op, !.name = name]]
  /\ UNCHANGED <<built, regPools, sets, conns, hist>>
  /\ UNCHANGED poolOthers

\* Registry.GetPoolName(name)
GetPoolName ==
  /\ \E p \in Procs, name \in LookupNames : GetPoolNameLock(p, name, "GetPoolName")

\* Registry.Pools()
Pools ==
  /\ \E p \in Procs : GetPoolNameLock(p, DEFAULT, "Pools")

\* GetPoolName looks the name up, unlocks and returns
GetPoolNameReturn ==
  /\ \E p \in Procs :
       /\ procs[p].at = "get"
       /\ hist' = Append(hist, Done(p, Lookup(regPools, procs[p].name)))
       /\ procs' = [procs EXCEPT ![p] = Idle]
  /\ mutex' = 0
  /\ UNCHANGED <<built, regPools, sets, conns>>
  /\ UNCHANGED poolOthers

\* Registry.Close: r.Lock() and the start of the range over r.pools
Close ==
  /\ \E p \in Procs :
       /\ CanStart(p, MaxRegCalls)
       /\ procs' = [procs EXCEPT ![p] =
                      [Idle EXCEPT !.at = "close", !.op = "Close", !.todo = DOMAIN regPools]]
       /\ mutex' = p
  /\ CanLock(mutex)
  /\ UNCHANGED <<built, regPools, sets, conns, hist>>
  /\ UNCHANGED poolOthers

\* one round of the loop of Close: pool.Close() and delete(r.pools, key);
\* the range produces the keys still in the map that it has not visited
CloseStep ==
  /\ \E p \in Procs :
       /\ procs[p].at = "close"
       /\ \E key \in procs[p].todo \cap DOMAIN regPools :
            /\ conns' = PoolsClose(sets[regPools[key]], conns)
            /\ regPools' = Delete(regPools, key)
            /\ procs' = [procs EXCEPT ![p].todo = @ \ {key}]
  /\ UNCHANGED <<built, sets, mutex, hist>>
  /\ UNCHANGED poolOthers

\* Close unlocks and returns nil
CloseReturn ==
  /\ \E p \in Procs :
       /\ procs[p].at = "close"
       /\ procs[p].todo \cap DOMAIN regPools = {}
       /\ hist' = Append(hist, Done(p, NilRet))
       /\ procs' = [procs EXCEPT ![p] = Idle]
  /\ mutex' = 0
  /\ UNCHANGED <<built, regPools, sets, conns>>
  /\ UNCHANGED poolOthers

\* ------------------------------------------------- forked WithNestedTx calls
\* every forked goroutine makes one WithNestedTx call
NoParent == [ctx |-> NilCtx, val |-> 0]
Resting == [at |-> "idle", ctx |-> NilCtx, owner |-> FALSE, work |-> NotRun,
            ret |-> NotRun, calls |-> 0]

\* goroutines are forked from a context: Background, or the context the
\* work of the d-th nested WithNestedTx invocation is handed, which
\* carries the open handle and the counter cell holding d
Fork ==
  /\ parent = NoParent
  /\ stack = <<>>
  /\ ncalls = 0
  /\ \E d \in 0..MaxDepth :
       IF d = 0
       THEN /\ parent' = [ctx |-> Background, val |-> 0]
            /\ UNCHANGED <<cells, txState>>
       ELSE /\ parent' = [ctx |-> [tx |-> 1, cnt |-> 1], val |-> d]
            /\ cells' = <<d>>
            /\ txState' = <<"open">>
  /\ UNCHANGED <<forks, log>>
  /\ UNCHANGED forkOthers

\* WithNestedTx in goroutine p up to the call of tFunc: beginNestedTx
ForkedEnter ==
  /\ parent # NoParent
  /\ \E p \in Procs :
       /\ forks[p].at = "idle"
       /\ forks[p].calls = 0
       /\ LET ctx1 == tickTxCounterCtx(parent.ctx, cells)
              cells1 == tickTxCounterCells(parent.ctx, cells, 1)
              h == Len(txState) + 1
          IN  IF ~beginNestedTxStarts(ctx1)
              THEN /\ forks' = [forks EXCEPT ![p] =
                                  [@ EXCEPT !.at = "work", !.ctx = ctx1, !.owner = FALSE,
                                            !.work = NotRun, !.ret = NotRun]]
                   /\ cells' = cells1
                   /\ UNCHANGED txState
              ELSE \E ok \in BOOLEAN :
                     /\ txState' = PoolBegin(txState, ok)
                     /\ cells' = cells1
                     /\ forks' = [forks EXCEPT ![p] =
                                    IF ok
                                    THEN [@ EXCEPT !.at = "work", !.ctx = begin(ctx1, TRUE, h),
                                                   !.owner = TRUE, !.work = NotRun, !.ret = NotRun]
                                    ELSE [@ EXCEPT !.ctx = NilCtx, !.owner = FALSE, !.work = NotRun,
                                                   !.ret = IF TickPanics(begin(ctx1, FALSE, h))
                                                           THEN PanicOut(NilDeref)
                                                           ELSE ErrOut(BeginErr),
                                                   !.calls = @ + 1]]
  /\ UNCHANGED <<parent, log>>
  /\ UNCHANGED forkOthers

\* tFunc of goroutine p returns or panics
ForkedWork ==
  /\ \E p \in Procs :
       /\ forks[p].at = "work"
       /\ \E r \in {NilOut} \cup {ErrOut(e) : e \in WorkErrs} \cup {PanicOut(v) : v \in PanicVals} :
            forks' = [forks EXCEPT ![p] = [@ EXCEPT !.at = "exit", !.work = r]]
  /\ UNCHANGED <<parent, cells, txState, log>>
  /\ UNCHANGED forkOthers

\* the deferred function of WithNestedTx in goroutine p, then its return
ForkedExit ==
  /\ \E p \in Procs :
       /\ forks[p].at = "exit"
       /\ LET f == forks[p]
              op == WithNestedTxDefer(f.owner, f.work)
          IN  /\ cells' = tickTxCounterCells(f.ctx, cells, -1)
              /\ IF op = "none"
                 THEN /\ forks' = [forks EXCEPT ![p] =
                                     [Resting EXCEPT !.ret = f.work, !.calls = f.calls + 1]]
                      /\ UNCHANGED txState
                 ELSE \E ok \in CtxOutcomes(txState, f.ctx) :
                        /\ txState' = StateTerminal(txState, op, f.ctx, ok)
                        /\ forks' = [forks EXCEPT ![p] =
                                       [Resting EXCEPT !.calls = f.calls + 1,
                                                       !.ret = DeferRet(f.work, Terminal(op, f.ctx, ok))]]
  /\ UNCHANGED <<parent, log>>
  /\ UNCHANGED forkOthers

\* ------------------------------------------------- pgxpool.SetDefaultValues
\* durations are counted in seconds
defaultMaxConns == 4
defaultMinConns == 0
defaultMaxConnLifetime == 3600
defaultMaxConnIdleTime == 1800
defaultHealthCheckPeriod == 60

\* the Config values the caller builds
PoolConfigs ==
  [Nodes : {<<>>, <<"node1">>},
   MaxConns : {0, 4, 10},
   MinConns : {0, 2},
   MaxConnLifetime : {0, 3600, 7200},
   MaxConnIdleTime : {0, 1800, 5},
   HealthCheckPeriod : {0, 60, 90},
   LazyConnect : BOOLEAN,
   PreferSimpleProtocol : BOOLEAN]

\* Config{}
EmptyConfig ==
  [Nodes |-> <<>>, MaxConns |-> 0, MinConns |-> 0, MaxConnLifetime |-> 0,
   MaxConnIdleTime |-> 0, HealthCheckPeriod |-> 0, LazyConnect |-> FALSE,
   PreferSimpleProtocol |-> FALSE]

GetDefaultConfig ==
  [EmptyConfig EXCEPT !.MaxConns = defaultMaxConns,
                      !.MinConns = defaultMinConns,
                      !.MaxConnLifetime = defaultMaxConnLifetime,
                      !.MaxConnIdleTime = defaultMaxConnIdleTime,
                      !.HealthCheckPeriod = defaultHealthCheckPeriod]

MutSetsAllDefaults(cfg) ==
  [cfg EXCEPT !.MaxConns = defaultMaxConns,
              !.MinConns = defaultMinConns,
              !.MaxConnLifetime = defaultMaxConnLifetime,
              !.MaxConnIdleTime = defaultMaxConnIdleTime,
              !.HealthCheckPeriod = defaultHealthCheckPeriod]
\* the Config after SetDefaultValues(&cfg)
SetDefaultValues(cfg) ==
  [cfg EXCEPT !.MaxConns = IF @ = 0 THEN defaultMaxConns ELSE @,
              !.MinConns = IF @ = 0 THEN defaultMinConns ELSE @,
              !.MaxConnLifetime = IF @ = 0 THEN defaultMaxConnLifetime ELSE @,
              !.MaxConnIdleTime = IF @ = 0 THEN defaultMaxConnIdleTime ELSE @,
              !.HealthCheckPeriod = IF @ = 0 THEN defaultHealthCheckPeriod ELSE @]

NoConf == [n |-> -1, given |-> EmptyConfig, prev |-> EmptyConfig, cur |-> EmptyConfig]

\* the caller builds a Config
MakeConfig ==
  /\ conf = NoConf
  /\ \E cfg \in PoolConfigs :
       conf' = [n |-> 0, given |-> cfg, prev |-> cfg, cur |-> cfg]
  /\ UNCHANGED confOthers

\* the caller applies SetDefaultValues to its Config, once and once more
SetDefaultValuesCall ==
  /\ conf.n \in {0, 1}
  /\ conf' = [conf EXCEPT !.n = @ + 1, !.prev = conf.cur, !.cur = SetDefaultValues(conf.cur)]
  /\ UNCHANGED confOthers

\* --------------------------------------------------- migrate.NewWithConfig
defaultDriver == "postgres"
defaultPath == "migrations"
defaultScheme == "public"
defaultTable == "migration"
\* 10 * time.Minute, in seconds
defaultConnMaxLifetime == 600

ErrDataSourceName == "data_source_name is required in the config"
ErrPathMigration == "path_migration is required in the config"
ErrScheme == "scheme is required in the config"
ErrTable == "table is required in the config"
ErrConnMaxLifetime == "conn_max_lifetime must be greater than zero"

\* the migrate.Config values the caller builds
MigrateConfigs ==
  [Driver : {"", "pgx"},
   DatabaseName : {"", "app"},
   DataSourceName : {"", "postgres://db"},
   PathMigration : {"", "db/migrations"},
   Scheme : {"", "app"},
   Table : {"", "versions"},
   ConnMaxLifetime : {-1, 0, 30}]

ZeroMigrateConfig ==
  [Driver |-> "", DatabaseName |-> "", DataSourceName |-> "", PathMigration |-> "",
   Scheme |-> "", Table |-> "", ConnMaxLifetime |-> 0]

\* validateConfig: the error returned, "nil" for none
validateConfig(config) ==
  IF config.DataSourceName = "" THEN ErrDataSourceName
  ELSE IF config.PathMigration = "" THEN ErrPathMigration
  ELSE IF config.Scheme = "" THEN ErrScheme
  ELSE IF config.Table = "" THEN ErrTable
  ELSE IF config.ConnMaxLifetime <= 0 THEN ErrConnMaxLifetime
  ELSE "nil"

\* the Config after SetDefaultConfigValues(&config)
SetDefaultConfigValues(config) ==
  [config EXCEPT !.PathMigration = IF @ = "" THEN defaultPath ELSE @,
                 !.Scheme = IF @ = "" THEN defaultScheme ELSE @,
                 !.Table = IF @ = "" THEN defaultTable ELSE @,
                 !.ConnMaxLifetime = IF @ = 0 THEN defaultConnMaxLifetime ELSE @,
                 !.Driver = IF @ = "" THEN defaultDriver ELSE @]

\* NewWithConfig: the migrator and the error returned
NewWithConfig(config) ==
  IF validateConfig(config) # "nil"
  THEN [ok |-> FALSE, err |-> validateConfig(config), config |-> ZeroMigrateConfig]
  ELSE [ok |-> TRUE, err |-> "nil", config |-> SetDefaultConfigValues(config)]

\* at: "none", "config" (the caller holds a Config), "made" (NewWithConfig
\* has returned); held: the caller's Config; given: the Config passed
NoMigrator ==
  [at |-> "none", held |-> ZeroMigrateConfig, given |-> ZeroMigrateConfig,
   ok |-> FALSE, err |-> "nil", config |-> ZeroMigrateConfig]

\* the caller builds a Config
MakeMigrateConfig ==
  /\ migrator.at = "none"
  /\ \E config \in MigrateConfigs :
       migrator' = [migrator EXCEPT !.at = "config", !.held = config]
  /\ UNCHANGED newOthers

\* the caller applies the exported SetDefaultConfigValues to its Config
SetDefaultConfigValuesCall ==
  /\ migrator.at = "config"
  /\ migrator.held # SetDefaultConfigValues(migrator.held)
  /\ migrator' = [migrator EXCEPT !.held = SetDefaultConfigValues(@)]
  /\ UNCHANGED newOthers

\* the caller passes its Config to NewWithConfig
NewWithConfigCall ==
  /\ migrator.at = "config"
  /\ LET r == NewWithConfig(migrator.held)
     IN migrator' = [at |-> "made", held |-> migrator.held, given |-> migrator.held,
                     ok |-> r.ok, err |-> r.err, config |-> r.config]
  /\ UNCHANGED newOthers

\* --------------------------------------------------- Migrate.Up / Migrate.Down
ErrOpen == "failed to connect to the database"
ErrPing == "failed to establish a connection with the database"
ErrCheckTable == "failed to check the migration table"
ErrDriver == "failed to create migration driver"
ErrInstance == "failed to create migration instance"
ErrCloseDb == "failed to close the database connection"
ErrNoChange == "no change"
ErrEngine == "migration failed"

\* the values of max given to Down
DownMaxes == {1, 2}

\* one Up or Down call. at: where the call is; db: the *sql.DB opened by
\* openConnection; closes: the calls of closeConnection on it; watcher: the
\* goroutine waiting on ctx.Done(); cancelled: the context is cancelled;
\* dbAtEngine: db when mig.Up / mig.Steps was called; libClosed: mig.Close
\* closed db once more; ret: what Up or Down returned
NoRun ==
  [at |-> "idle", op |-> "none", max |-> 0, db |-> "none", closes |-> 0,
   watcher |-> "none", cancelled |-> FALSE, dbAtEngine |-> "none",
   libClosed |-> FALSE, engine |-> "none", ret |-> "none"]

\* closeConnection(db): db.Close() is called
closeConnection(r) == [r EXCEPT !.db = "closed", !.closes = @ + 1]

\* a step of newMigrationInstance fails: the deferred closeConnection runs
\* and Up / Down returns the error (an error of closing is dropped, err
\* being set already)
InstanceFailed(r, err) ==
  [closeConnection(r) EXCEPT !.at = "returned", !.ret = err]

\* Up / Down up to the go statement of newMigrationInstance: openConnection,
\* the deferred closeConnection is registered and the goroutine started
newMigrationInstanceStart(r, op, max, ok) ==
  IF ~ok
  THEN [r EXCEPT !.at = "returned", !.op = op, !.max = max, !.ret = ErrOpen]
  ELSE [r EXCEPT !.at = "ping", !.op = op, !.max = max, !.db = "open",
                 !.watcher = "waiting"]

\* Migrate.Up is called
MigrateUp ==
  /\ run.at = "idle"
  /\ \E ok \in BOOLEAN : run' = newMigrationInstanceStart(run, "Up", 0, ok)
  /\ UNCHANGED runOthers

\* Migrate.Down is called
MigrateDown ==
  /\ run.at = "idle"
  /\ \E max \in DownMaxes, ok \in BOOLEAN :
       run' = newMigrationInstanceStart(run, "Down", max, ok)
  /\ UNCHANGED runOthers

\* the caller cancels the context, before or during the call
Cancel ==
  /\ ~run.cancelled
  /\ run' = [run EXCEPT !.cancelled = TRUE]
  /\ UNCHANGED runOthers

\* the goroutine: <-ctx.Done(), then closeConnection(db)
Watcher ==
  /\ run.watcher = "waiting"
  /\ run.cancelled
  /\ run' = [closeConnection(run) EXCEPT !.watcher = "done"]
  /\ UNCHANGED runOthers

\* the outcomes of a step of newMigrationInstance on db: it may fail, and
\* fails on a closed db
StepOutcomes(r) == IF r.db = "open" THEN BOOLEAN ELSE {FALSE}

\* newMigrationInstance after a step with outcome ok
InstanceStep(r, ok, next, err) ==
  IF ok THEN [r EXCEPT !.at = next] ELSE InstanceFailed(r, err)

\* db.Ping()
Ping ==
  /\ run.at = "ping"
  /\ \E ok \in StepOutcomes(run) : run' = InstanceStep(run, ok, "check", ErrPing)
  /\ UNCHANGED runOthers

\* m.checkMigrationTable(db)
checkMigrationTable ==
  /\ run.at = "check"
  /\ \E ok \in StepOutcomes(run) : run' = InstanceStep(run, ok, "driver", ErrCheckTable)
  /\ UNCHANGED runOthers

\* postgres.WithInstance(db, ...)
WithInstance ==
  /\ run.at = "driver"
  /\ \E ok \in StepOutcomes(run) : run' = InstanceStep(run, ok, "instance", ErrDriver)
  /\ UNCHANGED runOthers

\* migrate.NewWithDatabaseInstance(...): it does not use db
NewWithDatabaseInstance ==
  /\ run.at = "instance"
  /\ \E ok \in BOOLEAN : run' = InstanceStep(run, ok, "return", ErrInstance)
  /\ UNCHANGED runOthers

\* return mig, nil: the deferred closeConnection(db) runs; when it fails
\* the named result err is set and Up / Down returns it
newMigrationInstanceReturn ==
  /\ run.at = "return"
  /\ \E ok \in BOOLEAN :
       run' = IF ok THEN [closeConnection(run) EXCEPT !.at = "engine"]
              ELSE [closeConnection(run) EXCEPT !.at = "returned", !.ret = ErrCloseDb]
  /\ UNCHANGED runOthers

\* mig.Up() / mig.Steps(-max)
Engine ==
  /\ run.at = "engine"
  /\ \E res \in {"nil", ErrNoChange, ErrEngine} :
       run' = [run EXCEPT !.at = "ran", !.dbAtEngine = run.db, !.engine = res]
  /\ UNCHANGED runOthers

\* Up / Down return: the deferred mig.Close() runs (it may close db again;
\* its error is assigned to a variable that is no result) and the
\* engine's error is returned unless it is ErrNoChange
MigrateReturn ==
  /\ run.at = "ran"
  /\ \E lib \in BOOLEAN :
       run' = [run EXCEPT !.at = "returned", !.libClosed = lib,
                          !.db = IF lib THEN "closed" ELSE @,
                          !.ret = IF run.engine \in {"nil", ErrNoChange}
                                  THEN "nil" ELSE run.engine]
  /\ UNCHANGED runOthers

\* ------------------------------------------------------------ specification
Init ==
  /\ stack = <<>>
  /\ cells = <<>>
  /\ txState = <<>>
  /\ userCtx = Background
  /\ log = <<>>
  /\ done = <<>>
  /\ result = NotRun
  /\ last = NoLast
  /\ ncalls = 0
  /\ built = NotBuilt
  /\ regPools = NoPools
  /\ sets = <<>>
  /\ conns = <<>>
  /\ mutex = 0
  /\ procs = [p \in Procs |-> Idle]
  /\ hist = <<>>
  /\ parent = NoParent
  /\ forks = [p \in Procs |-> Resting]
  /\ conf = NoConf
  /\ migrator = NoMigrator
  /\ run = NoRun

Next ==
  \/ Begin
  \/ Commit
  \/ Rollback
  \/ WithTxEnter
  \/ WithTxExit
  \/ WithNestedTxEnter
  \/ WithNestedTxExit
  \/ WorkReturn
  \/ WorkPanic

Spec == Init /\ [][Next]_vars

\* the callers of one pool set
NextPools ==
  \/ OpenPools
  \/ Master
  \/ Slave
  \/ SlaveReturn

SpecPools == Init /\ [][NextPools]_vars

\* the callers of the registry
NextRegistry ==
  \/ NewRegistry
  \/ GetPoolName
  \/ Pools
  \/ GetPoolNameReturn
  \/ Close
  \/ CloseStep
  \/ CloseReturn

SpecRegistry == Init /\ [][NextRegistry]_vars

\* goroutines forked from one context, each calling WithNestedTx
NextForked ==
  \/ Fork
  \/ ForkedEnter
  \/ ForkedWork
  \/ ForkedExit

SpecForked == Init /\ [][NextForked]_vars

\* a caller of pgxpool.SetDefaultValues
NextDefaults ==
  \/ MakeConfig
  \/ SetDefaultValuesCall

SpecDefaults == Init /\ [][NextDefaults]_vars

\* a caller of migrate.NewWithConfig
NextNewWithConfig ==
  \/ MakeMigrateConfig
  \/ NewWithConfigCall
  \/ SetDefaultConfigValuesCall

SpecNewWithConfig == Init /\ [][NextNewWithConfig]_vars

\* one Up or Down call of a migrator, its context and its goroutine
NextMigrate ==
  \/ MigrateUp
  \/ MigrateDown
  \/ Cancel
  \/ Watcher
  \/ Ping
  \/ checkMigrationTable
  \/ WithInstance
  \/ NewWithDatabaseInstance
  \/ newMigrationInstanceReturn
  \/ Engine
  \/ MigrateReturn

SpecMigrate == Init /\ [][NextMigrate]_vars

\* ------------------------------------------------------------ observations
\* the calls of kind op recorded in the log, and those made by invocation id
Events(op) == {i \in DOMAIN log : log[i].op = op}
EventsBy(op, id) == {i \in DOMAIN log : log[i].op = op /\ log[i].by = id}
Terminals == Events("Commit") \cup Events("Rollback")

\* a call tree has run to its end
TreeDone == stack = <<>> /\ done # <<>>

\* the finished call tree is a chain: every work made at most one inner
\* call, so done holds the invocations innermost first
IsChain == \A i \in DOMAIN done : done[i].depth = Len(done) - i + 1

\* the finished call tree is made of WithNestedTx invocations only and
\* its outermost call was given a context without a handle
NestedTree ==
  /\ TreeDone
  /\ \A i \in DOMAIN done : done[i].fn = "WithNestedTx"
  /\ ~HasTx(done[Len(done)].ctx0)

\* C1: K >= 2 recursive WithNestedTx invocations, each inner one on the
\* context handed to the enclosing work (the outermost on a context without
\* a handle): the pool's Begin is called exactly once and exactly one
\* Commit or Rollback is issued on the handle overall.
C1_OneBeginOneTerminal ==
  (NestedTree /\ \E i \in DOMAIN done : done[i].depth >= 2)
    => /\ Cardinality(Events("Begin")) = 1
       /\ Cardinality(Terminals) = 1
       /\ \A i \in Terminals : log[i].tx = log[1].tx

\* K = 3 nested invocations have all returned
C1_Witness ==
  /\ NestedTree
  /\ IsChain
  /\ Len(done) = 3
  /\ Cardinality(Terminals) = 1

\* C2: WithTx on a context without a handle whose work returns nil calls
\* Begin once, Commit exactly once and Rollback never, and returns nil
\* when Commit succeeds.
C2_WithTxCommitsOnNil ==
  \A i \in DOMAIN done :
    LET d == done[i] IN
    (d.fn = "WithTx" /\ ~HasTx(d.ctx0) /\ d.work = NilOut)
      => /\ Cardinality(EventsBy("Begin", d.id)) = 1
         /\ Cardinality(EventsBy("Commit", d.id)) = 1
         /\ Cardinality(EventsBy("Rollback", d.id)) = 0
         /\ (\A j \in EventsBy("Commit", d.id) : log[j].ok) => d.ret = NilOut

\* a WithTx that began the transaction has returned nil after its commit
C2_Witness ==
  \E i \in DOMAIN done :
    /\ done[i].fn = "WithTx" /\ ~HasTx(done[i].ctx0) /\ done[i].work = NilOut
    /\ done[i].ret = NilOut
    /\ \E j \in EventsBy("Commit", done[i].id) : log[j].ok

\* C3: WithTx on a context without a handle whose work returns error e
\* calls Rollback exactly once and Commit never, and returns exactly e,
\* also when Rollback fails.
C3_WithTxRollsBackOnError ==
  \A i \in DOMAIN done :
    LET d == done[i] IN
    (d.fn = "WithTx" /\ ~HasTx(d.ctx0) /\ d.work.kind = "err")
      => /\ Cardinality(EventsBy("Rollback", d.id)) = 1
         /\ Cardinality(EventsBy("Commit", d.id)) = 0
         /\ d.ret = d.work

\* the work returned an error and the rollback failed
C3_Witness ==
  \E i \in DOMAIN done :
    /\ done[i].fn = "WithTx" /\ ~HasTx(done[i].ctx0) /\ done[i].work = ErrOut("e1")
    /\ \E j \in EventsBy("Rollback", done[i].id) : ~log[j].ok

\* C4: WithTx on a context without a handle whose work panics with p calls
\* Rollback exactly once and Commit never, and the panic reaches the
\* caller with the same value p, also when Rollback fails.
C4_WithTxRollsBackOnPanic ==
  \A i \in DOMAIN done :
    LET d == done[i] IN
    (d.fn = "WithTx" /\ ~HasTx(d.ctx0) /\ d.work.kind = "panic")
      => /\ Cardinality(EventsBy("Rollback", d.id)) = 1
         /\ Cardinality(EventsBy("Commit", d.id)) = 0
         /\ d.ret = d.work
         /\ (stack = <<>> /\ i = Len(done)) => result = d.work

\* the work panicked, the rollback failed and the caller got the panic
C4_Witness ==
  /\ stack = <<>>
  /\ result = PanicOut("p1")
  /\ \E i \in DOMAIN done :
       /\ done[i].fn = "WithTx" /\ ~HasTx(done[i].ctx0) /\ done[i].work = PanicOut("p1")
       /\ \E j \in EventsBy("Rollback", done[i].id) : ~log[j].ok

\* the finished call tree is a chain of K >= 2 WithNestedTx invocations
\* whose innermost one returned an error
InnerFailed ==
  /\ NestedTree
  /\ IsChain
  /\ Len(done) >= 2
  /\ done[1].ret.kind = "err"

\* C5 as stated: if the innermost of K nested WithNestedTx calls returns an
\* error, every enclosing call fails too (an error, or a panic unwinding
\* through it) and the transaction is rolled back exactly once and never
\* committed.
C5_InnerErrorAllFail ==
  InnerFailed
    => /\ \A i \in DOMAIN done : done[i].ret.kind \in {"err", "panic"}
       /\ Cardinality(Events("Rollback")) = 1
       /\ Cardinality(Events("Commit")) = 0

\* C5 amended: if the innermost of K nested WithNestedTx calls returns an
\* error and every enclosing work returns what its inner call returned,
\* every enclosing call returns that same error and the transaction is
\* rolled back exactly once and never committed.
C5_InnerErrorPropagated ==
  (InnerFailed /\ \A i \in 2..Len(done) : done[i].work = done[i].inner)
    => /\ \A i \in DOMAIN done : done[i].ret = done[1].ret
       /\ Cardinality(Events("Rollback")) = 1
       /\ Cardinality(Events("Commit")) = 0

\* three nested invocations, the innermost failed with e1 and both
\* enclosing works handed the error on
C5_Witness ==
  /\ InnerFailed
  /\ Len(done) = 3
  /\ done[1].ret = ErrOut("e1")
  /\ \A i \in 2..Len(done) : done[i].work = done[i].inner
  /\ Events("Rollback") # {}

\* C6: a WithNestedTx invocation that found a handle in its context never
\* calls Commit or Rollback, whatever its work does; a terminal call of
\* WithTx or WithNestedTx is only made by the invocation whose Begin
\* produced the handle.
C6_OnlyOwnerEndsTx ==
  /\ \A j \in Terminals :
       log[j].by # 0
         => \E b \in EventsBy("Begin", log[j].by) : log[b].ok /\ log[b].tx = log[j].tx
  /\ \A i \in DOMAIN done :
       (done[i].fn = "WithNestedTx" /\ HasTx(done[i].ctx0))
         => EventsBy("Commit", done[i].id) \cup EventsBy("Rollback", done[i].id) = {}

\* a nested invocation whose work panicked has unwound and the owner has
\* rolled back
C6_Witness ==
  /\ TreeDone
  /\ Events("Rollback") # {}
  /\ \E i \in DOMAIN done :
       /\ done[i].fn = "WithNestedTx" /\ HasTx(done[i].ctx0)
       /\ done[i].work.kind = "panic"
  /\ \E i \in DOMAIN done :
       /\ done[i].fn = "WithNestedTx" /\ HasTx(done[i].ctx0)
       /\ done[i].work.kind = "err"

\* C7: WithTx on a context that carries a handle runs work on that handle,
\* calls neither Begin, Commit nor Rollback, returns work's result
\* unchanged, and an open transaction is still open when it returns.
C7_WithTxJoins ==
  \A i \in DOMAIN done :
    LET d == done[i] IN
    (d.fn = "WithTx" /\ HasTx(d.ctx0))
      => /\ d.ctx = d.ctx0
         /\ \A j \in DOMAIN log : log[j].by # d.id
         /\ d.ret = d.work
         /\ d.st0 = "open" => d.st1 = "open"

\* a WithTx inside an open transaction returned its work's error
C7_Witness ==
  \E i \in DOMAIN done :
    /\ done[i].fn = "WithTx" /\ HasTx(done[i].ctx0)
    /\ done[i].st0 = "open" /\ done[i].st1 = "open"
    /\ done[i].ret = ErrOut("e2")

\* C8: in WithTx and in the owner invocation of WithNestedTx, when work
\* returns nil and Commit fails with c, the call returns c and no Rollback
\* is issued.
C8_CommitFailureReturned ==
  \A i \in DOMAIN done :
    LET d == done[i] IN
    (d.owner /\ d.work = NilOut /\ \E j \in EventsBy("Commit", d.id) : ~log[j].ok)
      => /\ d.ret = ErrOut(CommitErr)
         /\ Events("Rollback") = {}

\* the owner WithNestedTx of a nested tree returned the commit error
C8_Witness ==
  /\ TreeDone
  /\ Len(done) >= 2
  /\ LET d == done[Len(done)] IN
       /\ d.fn = "WithNestedTx" /\ d.owner /\ d.work = NilOut
       /\ d.ret = ErrOut(CommitErr)

\* C9: Commit and Rollback on a context that carries no handle return
\* ErrNoTransaction and invoke nothing on the pool or on any handle.
C9_NoTransaction ==
  (last.op \in {"Commit", "Rollback"} /\ ~HasTx(last.ctxIn))
    => /\ last.err = ErrOut(ErrNoTransaction)
       /\ log = <<>>

\* Commit on the background context while the caller holds an open
\* transaction: the transaction is untouched
C9_Witness ==
  /\ last.op = "Commit"
  /\ ~HasTx(last.ctxIn)
  /\ HasTx(userCtx)
  /\ txState[userCtx.tx] = "open"

\* C10: when the pool's Begin fails, the manager's Begin returns the
\* original context unchanged together with the pool's error.
C10_BeginFailureKeepsCtx ==
  (last.op = "Begin" /\ last.err.kind = "err")
    => /\ last.ctxOut = last.ctxIn
       /\ last.err = ErrOut(BeginErr)

\* C11: WithNestedTx on a context without a handle whose pool Begin fails
\* returns the begin error as an ordinary error, never runs work, issues
\* no Commit or Rollback, and leaves the depth counter as it was before
\* the call.
C11_NestedBeginFailureReturned ==
  \A i \in DOMAIN done :
    LET d == done[i] IN
    (d.fn = "WithNestedTx" /\ ~HasTx(d.ctx0)
       /\ \E b \in EventsBy("Begin", d.id) : ~log[b].ok)
      => /\ d.ret = ErrOut(BeginErr)
         /\ d.work = NotRun
         /\ Terminals = {}
         /\ \A c \in DOMAIN cells : cells[c] = 0

\* the handles a successful Begin of this call tree produced
TreeHandles == {log[b].tx : b \in {e \in Events("Begin") : log[e].ok /\ log[e].by # 0}}

\* the terminal calls made on handle h
TerminalsOn(h) == {j \in Terminals : log[j].tx = h}

\* C12 as stated: every transaction begun by WithTx or WithNestedTx is
\* Committed or RolledBack when the beginning invocation has returned or
\* unwound.
C12_AlwaysCommittedOrRolledBack ==
  \A i \in DOMAIN done :
    done[i].owner => done[i].st1 \in {"committed", "rolledback"}

\* C12: a transaction begun by WithTx or WithNestedTx has had exactly one
\* terminal call, made by the beginning invocation after its Begin, when
\* that invocation returns or unwinds; the transaction is then no longer
\* open, and it is Committed or RolledBack when the terminal call
\* succeeded. While the work of an invocation is still to finish, the
\* transaction is open and no terminal call has been made on it.
C12_TxEndedBeforeExit ==
  /\ \A i \in DOMAIN done :
       LET d == done[i] IN
       d.owner
         => /\ d.st1 \in {"committed", "rolledback", "closed"}
            /\ Cardinality(TerminalsOn(d.ctx.tx)) = 1
            /\ \A j \in TerminalsOn(d.ctx.tx) :
                 /\ log[j].by = d.id
                 /\ \E b \in EventsBy("Begin", d.id) : b < j /\ log[b].tx = d.ctx.tx
                 /\ log[j].ok => d.st1 = (IF log[j].op = "Commit" THEN "committed" ELSE "rolledback")
  /\ \A k \in DOMAIN stack :
       stack[k].ctx.tx \in TreeHandles
         => /\ txState[stack[k].ctx.tx] = "open"
            /\ TerminalsOn(stack[k].ctx.tx) = {}

\* an owner whose work panicked has unwound with its transaction rolled back
C12_Witness ==
  \E i \in DOMAIN done :
    /\ done[i].owner
    /\ done[i].work.kind = "panic"
    /\ done[i].st1 = "rolledback"
    /\ Len(done) >= 2

\* C13: in a call tree of nested WithTx and WithNestedTx invocations, each
\* inner call on the context handed to the enclosing work, at most one
\* transaction handle is live (begun and not yet ended) at any time.
C13_OneLiveHandle ==
  /\ Cardinality({h \in TreeHandles : txState[h] = "open"}) <= 1
  /\ \A k \in DOMAIN stack : stack[k].ctx.tx = stack[1].ctx.tx

\* three invocations of both kinds are nested on one live handle
C13_Witness ==
  /\ Len(stack) = 3
  /\ \E k \in DOMAIN stack : stack[k].fn = "WithTx"
  /\ \E k \in DOMAIN stack : stack[k].fn = "WithNestedTx"
  /\ Cardinality({h \in TreeHandles : txState[h] = "open"}) = 1

\* the WithNestedTx invocations now on the stack
OpenScopes == {k \in DOMAIN stack : stack[k].fn = "WithNestedTx"}

\* C14: while the work of the d-th nested WithNestedTx invocation runs,
\* the depth counter carried by its context equals d, the number of open
\* nested scopes; the counter is never negative, and it is zero again
\* after the outermost call has returned or unwound.
C14_CounterIsDepth ==
  /\ (stack # <<>> /\ Top.fn = "WithNestedTx" /\ Top.pc \in {"work", "inner"})
       => cells[Top.ctx.cnt] = Cardinality(OpenScopes)
  /\ \A c \in DOMAIN cells : cells[c] >= 0
  /\ TreeDone => \A c \in DOMAIN cells : cells[c] = 0

\* ---------------------------------------------------- pool set observations
\* the completed calls of kind op on pool set s
CallsOn(op, s) == {k \in DOMAIN hist : hist[k].op = op /\ hist[k].set = s}
\* the number of pools of pool set s
N(s) == Len(sets[s].pools)
\* the completed Slave calls on s that chose index i
Chosen(s, i) == Cardinality({k \in CallsOn("Slave", s) : hist[k].ret.idx = i})
\* the Slave calls on s that have chosen an index and not yet returned
InFlight(s) == Cardinality({p \in Procs : procs[p].at = "slave" /\ procs[p].set = s})
\* the call a step has just completed
Completed == hist'[Len(hist')]

\* C15: on a pool set of N >= 1 pools, whatever Master and Slave calls
\* went before, Master returns the pool at index 0, and a Master call
\* changes neither the pool sequence nor the replica counter nor any pool.
C15_MasterIsIndex0 ==
  /\ [](\A s \in DOMAIN sets : \A k \in CallsOn("Master", s) :
          N(s) >= 1 => hist[k].ret = PoolRet(0, sets[s].pools[1]))
  /\ [][(Len(hist') = Len(hist) + 1 /\ Completed.op = "Master")
          => UNCHANGED <<sets, conns, regPools, procs>>]_vars

\* Master has returned after Slave calls on a set of three pools
C15_Witness ==
  \E s \in DOMAIN sets : \E j \in CallsOn("Slave", s), k \in CallsOn("Master", s) :
    /\ N(s) = 3
    /\ j < k
    /\ sets[s].count >= 2
    /\ hist[k].ret.kind = "pool"

\* C16: Slave returns index 0 exactly when the pool set has one pool; on a
\* set of N >= 2 pools every Slave call, whatever calls run concurrently,
\* chooses and returns an index in 1..N-1, the pool at that index, never
\* the master.
C16_SlaveNeverMaster ==
  \A s \in DOMAIN sets :
    /\ \A k \in CallsOn("Slave", s) :
         /\ (hist[k].ret.kind = "pool" /\ hist[k].ret.idx = 0) <=> N(s) = 1
         /\ N(s) >= 2 => /\ hist[k].ret.kind = "pool"
                         /\ hist[k].ret.idx \in 1..(N(s) - 1)
                         /\ hist[k].ret.pool = sets[s].pools[hist[k].ret.idx + 1]
                         /\ hist[k].ret.pool # sets[s].pools[1]
    /\ \A p \in Procs :
         (procs[p].at = "slave" /\ procs[p].set = s /\ N(s) >= 2)
           => procs[p].idx \in 1..(N(s) - 1)

\* on a set of three pools one Slave call has returned a replica while
\* another is under way
C16_Witness ==
  \E s \in DOMAIN sets :
    /\ N(s) = 3
    /\ InFlight(s) >= 1
    /\ \E k \in CallsOn("Slave", s) : hist[k].ret.idx \in 1..2

\* C17: on a pool set of N >= 2 pools, when the M Slave calls made so far,
\* by one caller or by concurrent callers, have all completed, every
\* replica index in 1..N-1 has been chosen floor(M/(N-1)) or
\* ceil(M/(N-1)) times; while calls are under way, the counts of two
\* replicas differ by at most one more than the number of those calls.
C17_SlaveUniform ==
  \A s \in DOMAIN sets :
    N(s) >= 2 =>
      LET M == Cardinality(CallsOn("Slave", s))
          R == N(s) - 1
      IN /\ InFlight(s) = 0 =>
              \A i \in 1..R : Chosen(s, i) \in {M \div R, (M + R - 1) \div R}
         /\ \A i, j \in 1..R : Chosen(s, i) - Chosen(s, j) <= 1 + InFlight(s)

\* three Slave calls on a set with two replicas have completed, chosen 2:1
C17_Witness ==
  \E s \in DOMAIN sets :
    /\ N(s) = 3
    /\ InFlight(s) = 0
    /\ Cardinality(CallsOn("Slave", s)) = 3
    /\ {Chosen(s, 1), Chosen(s, 2)} = {1, 2}

\* C18: every pool set Open returns holds at least one pool, whatever
\* configuration Open accepts, so that Master on it does not fail.
C18_PoolSetsNonEmpty ==
  /\ built.ok => \A s \in DOMAIN sets : N(s) >= 1
  /\ \A k \in DOMAIN hist : hist[k].op = "Master" => hist[k].ret.kind = "pool"

\* ----------------------------------------------------- registry observations
\* the completed lookups (GetPoolName and Pools)
Lookups == {k \in DOMAIN hist : hist[k].op \in {"GetPoolName", "Pools"}}
\* the name a completed call looked up
NameOf(r) == IF r.op = "Pools" THEN DEFAULT ELSE r.name

\* C19: GetPoolName(name) returns the pool set the registry holds under
\* name when it holds one, and otherwise no pool set and ErrUnknownPool,
\* an error no failing connection produces; Pools() returns what
\* GetPoolName("default") returns.
C19_GetPoolName ==
  /\ [][(Len(hist') = Len(hist) + 1 /\ Completed.op \in {"GetPoolName", "Pools"})
          => /\ NameOf(Completed) \in DOMAIN regPools
                  => Completed.ret = SetRet(regPools[NameOf(Completed)])
             /\ NameOf(Completed) \notin DOMAIN regPools
                  => Completed.ret = ErrRet(ErrUnknownPool)]_vars
  /\ [](built.err # ErrUnknownPool /\ ErrUnknownPool # ConnectErr)

\* lookups have returned a registered pool set, ErrUnknownPool for a name
\* never registered, and the default pool set through Pools()
C19_Witness ==
  /\ \E k \in Lookups : hist[k].op = "GetPoolName" /\ hist[k].ret.kind = "set"
                        /\ N(hist[k].ret.set) = 2
  /\ \E k \in Lookups : hist[k].name = "nonexistent" /\ hist[k].ret = ErrRet(ErrUnknownPool)
  /\ \E k \in Lookups : hist[k].op = "Pools" /\ hist[k].ret.kind = "set"
                        /\ hist[k].ret.set = regPools[DEFAULT]

\* C20: once Close has returned the registry holds no entry, and every
\* lookup that returns afterwards returns ErrUnknownPool, also for a name
\* that was registered before.
C20_CloseEmpties ==
  \A i \in DOMAIN hist :
    hist[i].op = "Close"
      => /\ DOMAIN regPools = {}
         /\ \A k \in Lookups : k > i => hist[k].ret = ErrRet(ErrUnknownPool)

\* a name was found, Close returned, and the same name is unknown
C20_Witness ==
  \E i, j, k \in DOMAIN hist :
    /\ i < j /\ j < k
    /\ hist[i].op = "GetPoolName" /\ hist[i].ret.kind = "set"
    /\ hist[j].op = "Close"
    /\ hist[k].op = "GetPoolName" /\ hist[k].name = hist[i].name
    /\ hist[k].ret = ErrRet(ErrUnknownPool)

\* the pools of the pool sets the registry was built with
RegistryPools == UNION {{sets[s].pools[i] : i \in DOMAIN sets[s].pools} : s \in DOMAIN sets}

\* C21: over any number of Close calls on one registry, one after another
\* or concurrent, no pool is closed more than once; once a Close has
\* returned every pool of every pool set has been closed exactly once, so
\* a Close on the emptied registry closes nothing; every Close returns nil.
C21_CloseIdempotent ==
  built.ok =>
    /\ \A c \in DOMAIN conns : conns[c].closes <= 1
    /\ \A k \in DOMAIN hist :
         hist[k].op = "Close"
           => /\ hist[k].ret = NilRet
              /\ \A c \in RegistryPools : conns[c].closes = 1

\* two Close calls have returned on a registry of two pool sets
C21_Witness ==
  /\ built.ok
  /\ Len(sets) = 2
  /\ Cardinality(RegistryPools) >= 3
  /\ Cardinality({k \in DOMAIN hist : hist[k].op = "Close"}) = 2

\* C22: a lookup that returns while Close calls are made either returns a
\* pool set, and then no entry has been removed from the registry and no
\* pool of the set is closed, or returns ErrUnknownPool; it never sees a
\* registry with some entries removed and others not, and never returns a
\* pool set with some pools closed and others not.
C22_LookupSeesWholeOrEmpty ==
  [][(Len(hist') = Len(hist) + 1 /\ Completed.op \in {"GetPoolName", "Pools"})
       => /\ Cardinality(DOMAIN regPools) \in {0, Len(sets)}
          /\ Completed.ret.kind = "set"
               => /\ Cardinality(DOMAIN regPools) = Len(sets)
                  /\ \A i \in DOMAIN sets[Completed.ret.set].pools :
                       conns[sets[Completed.ret.set].pools[i]].closes = 0
          /\ Completed.ret.kind # "set"
               => /\ Completed.ret = ErrRet(ErrUnknownPool)
                  /\ (NameOf(Completed) \in ConfNames /\ Len(sets) = 2)
                       => DOMAIN regPools = {}]_vars

\* a lookup returned a pool set, and Close has removed one entry of two
C22_Witness ==
  /\ \E k \in Lookups : hist[k].ret.kind = "set"
  /\ \E p \in Procs : procs[p].at = "close" /\ Cardinality(procs[p].todo) = 1
  /\ Cardinality(DOMAIN regPools) = 1
  /\ Len(sets) = 2

\* C23: when some node of some configuration cannot be opened,
\* NewRegistry returns the error of the failing Open and no registry,
\* whatever the order the configurations are ranged over and however many
\* pool sets it opened before; otherwise it returns a registry that
\* holds, until Close is called, a pool set for every configuration.
C23_NewRegistryAtomic ==
  /\ built.bad => /\ ~built.ok
                  /\ built.err = ConnectErr
                  /\ regPools = NoPools
                  /\ hist = <<>>
  /\ (built # NotBuilt /\ ~built.bad)
       => /\ built.ok
          /\ built.err = "nil"
          /\ (hist = <<>> /\ \A p \in Procs : procs[p].at # "close")
               => Cardinality(DOMAIN regPools) = Len(sets)

\* NewRegistry has failed after it had opened a pool set
C23_Witness ==
  /\ built.bad
  /\ built.err = ConnectErr
  /\ Len(sets) = 1
  /\ Len(conns) >= 2

\* C24: when Open or NewRegistry has failed, every pool opened before the
\* failure, in the same pool set or in pool sets opened earlier, has been
\* closed.
C24_FailureClosesOpened ==
  built.err = ConnectErr => \A c \in DOMAIN conns : conns[c].closes >= 1

\* the finished invocations whose work panicked, first to finish first
Panicked == {i \in DOMAIN done : done[i].work.kind = "panic"}

\* C25: in a finished tree of WithNestedTx invocations whose outermost
\* call began the transaction, when the work of some invocation panicked,
\* that invocation and every enclosing one unwound with the same panic
\* value, none returned an error or nil instead, the caller got the panic,
\* exactly one Rollback was issued, by the outermost invocation, and no
\* Commit was issued.
C25_PanicUnwindsNested ==
  (NestedTree /\ Panicked # {})
    => LET first == CHOOSE i \in Panicked : \A j \in Panicked : i <= j
           root == done[Len(done)]
       IN  /\ \A j \in first..Len(done) :
                /\ done[j].work = done[first].work
                /\ done[j].ret = done[first].work
           /\ \A j \in first..(Len(done) - 1) : done[j].depth = done[j + 1].depth + 1
           /\ result = done[first].work
           /\ Events("Commit") = {}
           /\ Cardinality(Events("Rollback")) = 1
           /\ \A j \in Events("Rollback") : log[j].by = root.id /\ root.owner

\* the work of the third of three nested WithNestedTx invocations panicked
C25_Witness ==
  /\ NestedTree
  /\ IsChain
  /\ Len(done) = 3
  /\ done[1].work = PanicOut("p1")
  /\ result = PanicOut("p1")

\* the forked goroutines inside their WithNestedTx call
Inside == {p \in Procs : forks[p].at \in {"work", "exit"}}

\* C26: when the context goroutines are forked from carries a counter
\* cell, every WithNestedTx invocation forked from it runs on that cell
\* and creates no other; the cell holds its value from before the fork
\* plus the number of invocations under way, whatever their interleaving,
\* and so holds that value again when all have returned or unwound.
C26_ForkedShareCell ==
  (parent # NoParent /\ parent.ctx.cnt > 0)
    => /\ \A p \in Inside : forks[p].ctx.cnt = parent.ctx.cnt
       /\ Len(cells) = 1
       /\ cells[parent.ctx.cnt] = parent.val + Cardinality(Inside)
       /\ (\A p \in Procs : forks[p].calls = 1) => cells[parent.ctx.cnt] = parent.val

\* two invocations forked from the context of depth 2 are both under way
C26_Witness ==
  /\ parent.val = 2
  /\ Cardinality(Inside) = 2
  /\ cells = <<4>>

\* C27: SetDefaultValues replaces MaxConns, MinConns, MaxConnLifetime,
\* MaxConnIdleTime and HealthCheckPeriod, each when it is zero, by 4, 0,
\* one hour, 30 minutes and one minute, and leaves every non-zero field
\* and Nodes, LazyConnect and PreferSimpleProtocol as they are; on the
\* empty Config it gives GetDefaultConfig(); applied a second time it
\* changes nothing.
C27_SetDefaultValues ==
  conf.n >= 1 =>
    LET g == conf.given
        c == conf.cur
    IN  /\ c.MaxConns = IF g.MaxConns = 0 THEN 4 ELSE g.MaxConns
        /\ c.MinConns = IF g.MinConns = 0 THEN 0 ELSE g.MinConns
        /\ c.MaxConnLifetime = IF g.MaxConnLifetime = 0 THEN 60 * 60 ELSE g.MaxConnLifetime
        /\ c.MaxConnIdleTime = IF g.MaxConnIdleTime = 0 THEN 30 * 60 ELSE g.MaxConnIdleTime
        /\ c.HealthCheckPeriod = IF g.HealthCheckPeriod = 0 THEN 60 ELSE g.HealthCheckPeriod
        /\ c.Nodes = g.Nodes
        /\ c.LazyConnect = g.LazyConnect
        /\ c.PreferSimpleProtocol = g.PreferSimpleProtocol
        /\ g = EmptyConfig => c = GetDefaultConfig
        /\ conf.n = 2 => c = conf.prev

\* applied twice to a Config with some fields zero and others set
C27_Witness ==
  /\ conf.n = 2
  /\ conf.given.MaxConns = 0 /\ conf.cur.MaxConns = 4
  /\ conf.given.MaxConnLifetime = 7200 /\ conf.cur.MaxConnLifetime = 7200
  /\ conf.given.LazyConnect /\ conf.cur.LazyConnect
  /\ conf.given.Nodes = <<"node1">>

\* C28: NewWithConfig on a Config in which only DataSourceName is set
\* succeeds and gives a migrator whose Driver, PathMigration, Scheme,
\* Table and ConnMaxLifetime are "postgres", "migrations", "public",
\* "migration" and 10 minutes; it fails only when DataSourceName is empty.
C28_OnlyDataSourceNameNeeded ==
  migrator.at = "made" =>
    /\ migrator.given = [ZeroMigrateConfig EXCEPT !.DataSourceName = "postgres://db"]
         => /\ migrator.ok
            /\ migrator.config.Driver = "postgres"
            /\ migrator.config.PathMigration = "migrations"
            /\ migrator.config.Scheme = "public"
            /\ migrator.config.Table = "migration"
            /\ migrator.config.ConnMaxLifetime = 10 * 60
    /\ ~migrator.ok => migrator.given.DataSourceName = ""

\* the finished call tree holds invocations of both kinds and its
\* outermost call was given a context without a handle
MixedTree ==
  /\ TreeDone
  /\ ~HasTx(done[Len(done)].ctx0)
  /\ \E i \in DOMAIN done : done[i].fn = "WithTx"
  /\ \E i \in DOMAIN done : done[i].fn = "WithNestedTx"

\* the outermost invocation of the call tree
Outermost == IF stack # <<>> THEN stack[1].id ELSE done[Len(done)].id

\* C29: in a nesting that mixes WithTx and WithNestedTx, each inner call on
\* the context handed to the enclosing work, only the outermost invocation
\* calls Begin and only it issues the one Commit or Rollback; an invocation
\* owns the transaction exactly when its incoming context has no handle,
\* whatever the depth counter holds.
C29_MixedNestingOneOwner ==
  /\ \A k \in DOMAIN stack : stack[k].owner = ~HasTx(stack[k].ctx0)
  /\ \A i \in DOMAIN done :
       done[i].owner = (~HasTx(done[i].ctx0) /\ HasTx(done[i].ctx))
  /\ (stack # <<>> /\ ~HasTx(stack[1].ctx0))
       => /\ Events("Begin") = EventsBy("Begin", Outermost)
          /\ Cardinality(Events("Begin")) = 1
          /\ Terminals = {}
  /\ MixedTree
       => /\ Events("Begin") = EventsBy("Begin", Outermost)
          /\ Cardinality(Events("Begin")) = 1
          /\ Terminals = EventsBy("Commit", Outermost) \cup EventsBy("Rollback", Outermost)
          /\ Cardinality(Terminals) = 1

\* WithTx inside WithNestedTx inside WithTx have all returned; the
\* WithNestedTx found the counter at 0 and a handle in its context
C29_Witness ==
  /\ MixedTree
  /\ IsChain
  /\ Len(done) = 3
  /\ done[3].fn = "WithTx" /\ done[2].fn = "WithNestedTx" /\ done[1].fn = "WithTx"
  /\ done[2].cnt0 = 0 /\ ~done[2].owner
  /\ done[1].cnt0 = 1 /\ ~done[1].owner
  /\ Cardinality(Terminals) = 1

\* C30: in Migrate.Up and Migrate.Down the connection opened by
\* newMigrationInstance is open when the migration engine runs (mig.Up /
\* mig.Steps) and is closed only after the step has finished; it is closed
\* at most once per call, also when the context is cancelled.
C30_OpenWhileEngineRuns ==
  /\ run.at = "engine" => run.db = "open"
  /\ run.at \in {"ran", "returned"} /\ run.engine # "none" => run.dbAtEngine = "open"
  /\ run.closes <= 1

====
